---- MODULE Spec2Model ----
(***************************************************************************)
(* Model of config/topic_classifier.py: the closure classify_topic built   *)
(* by create_topic_classifier (an ordered cascade of nine regular          *)
(* expression tests followed by the emoji / short-comment heuristic) and   *)
(* the module-level CAMPAIGN_METADATA with its accessor                    *)
(* get_campaign_metadata.                                                  *)
(*                                                                         *)
(* A text is a sequence of characters.  A Latin-1 character is the         *)
(* one-character string itself; a character outside Latin-1 is named by    *)
(* its code point ("U+2764").  Python counts code points, so every         *)
(* element of a text has length one for len().                             *)
(***************************************************************************)
EXTENDS Integers, Sequences, FiniteSets, TLC

VARIABLES
    comment,            \* per call: the argument of classify_topic
    pc,                 \* per call: "start", "cascade", "fallback", "done"
    comment_lower,      \* per call: the local comment_lower (line 33)
    result,             \* per call: the returned topic, "TypeError", or NoResult
    CAMPAIGN_METADATA,  \* the module-level dict (lines 145-159)
    lists,              \* the list objects of the heap, by identity
    held,               \* per holder: the dict a get_campaign_metadata call returned
    snapshot,           \* per holder: what the last call returned, read at return
    mutations           \* number of caller mutations made so far

vars == <<comment, pc, comment_lower, result,
          CAMPAIGN_METADATA, lists, held, snapshot, mutations>>

classifyVars == <<comment, pc, comment_lower, result>>
metaVars == <<CAMPAIGN_METADATA, lists, held, snapshot, mutations>>

----------------------------------------------------------------------------
(* Characters and texts *)

Chars(s) == [i \in 1..Len(s) |-> SubSeq(s, i, i)]

Range(f) == {f[i] : i \in DOMAIN f}

HEART == "U+2764"
SUIT == "U+2665"
VS16 == "U+FE0F"
SPARKLES == "U+2728"
GRIN == "U+1F600"
THUMBS == "U+1F44D"
LONG_S == "U+017F"

\* Code points of the characters outside Latin-1 that the model uses.
ord ==
    [c \in {HEART, SUIT, VS16, SPARKLES, GRIN, THUMBS, LONG_S} |->
        CASE c = HEART -> 10084
          [] c = SUIT -> 9829
          [] c = VS16 -> 65039
          [] c = SPARKLES -> 10024
          [] c = GRIN -> 128512
          [] c = THUMBS -> 128077
          [] c = LONG_S -> 383]

UpperLetters == Chars("ABCDEFGHIJKLMNOPQRSTUVWXYZÁÉÍÓÚÑ")
LowerLetters == Chars("abcdefghijklmnopqrstuvwxyzáéíóúñ")
Digits == Chars("0123456789")

\* str.isspace(): what str.split() splits on and str.strip() strips.
Whitespace == {" ", "\n", "\t"}

\* \w of a str pattern: alphanumerics of any script and the underscore.
WordChars ==
    Range(UpperLetters) \cup Range(LowerLetters) \cup Range(Digits)
        \cup {"_", "ß", LONG_S}

LowerMap ==
    [c \in Range(UpperLetters) |->
        LowerLetters[CHOOSE i \in DOMAIN UpperLetters : UpperLetters[i] = c]]

\* str.lower() of one character.
LowerChar(c) == IF c \in DOMAIN LowerMap THEN LowerMap[c] ELSE c

\* str.lower()
lower(s) == [i \in 1..Len(s) |-> LowerChar(s[i])]

----------------------------------------------------------------------------
(* Python values and str() *)

PyNone == [type |-> "NoneType", value |-> 0]
PyBool(b) == [type |-> "bool", value |-> b]
PyInt(n) == [type |-> "int", value |-> n]
PyStr(s) == [type |-> "str", value |-> s]
PyList(elems) == [type |-> "list", value |-> elems]

RECURSIVE DecimalDigits(_)
DecimalDigits(n) ==
    IF n < 10 THEN <<Digits[n + 1]>>
    ELSE DecimalDigits(n \div 10) \o <<Digits[(n % 10) + 1]>>

IntToStr(n) == IF n < 0 THEN <<"-">> \o DecimalDigits(-n) ELSE DecimalDigits(n)

\* repr() of a str without quotes, backslashes or unprintable characters.
ReprStr(s) == <<"'">> \o s \o <<"'">>

RECURSIVE JoinWith(_, _)
JoinWith(sep, ss) ==
    IF ss = <<>> THEN <<>>
    ELSE IF Len(ss) = 1 THEN ss[1]
    ELSE ss[1] \o sep \o JoinWith(sep, Tail(ss))

\* str(comment)
str(v) ==
    CASE v.type = "str" -> v.value
      [] v.type = "NoneType" -> Chars("None")
      [] v.type = "bool" -> IF v.value THEN Chars("True") ELSE Chars("False")
      [] v.type = "int" -> IntToStr(v.value)
      [] v.type = "list" ->
            <<"[">> \o JoinWith(Chars(", "),
                                [i \in DOMAIN v.value |-> ReprStr(v.value[i])])
                    \o <<"]">>

----------------------------------------------------------------------------
(* re.search of the alternatives the patterns are made of *)

MatchAt(pat, s, i) ==
    /\ i + Len(pat) - 1 <= Len(s)
    /\ \A k \in 1..Len(pat) : s[i + k - 1] = pat[k]

\* a literal alternative: pat occurs somewhere in s
Find(pat, s) == \E i \in 1..(Len(s) - Len(pat) + 1) : MatchAt(pat, s, i)

\* \b at position i: exactly one of s[i-1], s[i] is a word character
Boundary(s, i) ==
    LET before == i > 1 /\ s[i - 1] \in WordChars
        after == i <= Len(s) /\ s[i] \in WordChars
    IN  before # after

\* \bpat\b
FindWord(pat, s) ==
    \E i \in 1..(Len(s) - Len(pat) + 1) :
        /\ MatchAt(pat, s, i)
        /\ Boundary(s, i)
        /\ Boundary(s, i + Len(pat))

\* x.*y: x, then any characters but a newline, then y
FindGap(x, y, s) ==
    \E i \in 1..Len(s) :
        /\ MatchAt(x, s, i)
        /\ \E j \in (i + Len(x))..Len(s) :
              /\ MatchAt(y, s, j)
              /\ \A k \in (i + Len(x))..(j - 1) : s[k] # "\n"

FindAny(pats, s) == \E p \in pats : Find(p, s)

Lits(strings) == {Chars(x) : x \in strings}

----------------------------------------------------------------------------
(* The nine content rules, in the order of the cascade (lines 35-119) *)

\* CATEGORIA 1 (lines 37-43)
Rank1Literals ==
    Lits({"búlgaros", "bulgaros", "nódulos", "nodulos", "en casa", "casero",
          "artesanal", "preparo yo", "hago mi", "preparo mi",
          "vendo el cultivo", "hecho por mi", "hago yo", "mejor hacer",
          "tengo búlgaros", "tengo bulgaros", "tu misma", "tu mismo"})
\* regalo.*b[úu]lgaros, f[aá]cil.*hacer, c[oó]mo.*prepara
Rank1Gaps ==
    {<<Chars("regalo"), Chars("búlgaros")>>,
     <<Chars("regalo"), Chars("bulgaros")>>,
     <<Chars("facil"), Chars("hacer")>>, <<Chars("fácil"), Chars("hacer")>>,
     <<Chars("como"), Chars("prepara")>>, <<Chars("cómo"), Chars("prepara")>>}
Rank1(s) ==
    \/ FindAny(Rank1Literals, s)
    \/ \E g \in Rank1Gaps : FindGap(g[1], g[2], s)

\* CATEGORIA 2 (lines 48-53)
Rank2Words == Lits({"caro"})
Rank2Literals ==
    Lits({"muy caro", "tan caro", "absurdamente caro", "precio", "economico",
          "economica", "económico", "económica", "vale", "cuesta",
          "mas barato", "más barato", "dejando pobre", "paladar de pobre",
          "sale mas", "sale más"})
Rank2(s) ==
    \/ \E w \in Rank2Words : FindWord(w, s)
    \/ FindAny(Rank2Literals, s)

\* CATEGORIA 3 (lines 57-63)
Rank3Literals ==
    Lits({"conservantes", "colorantes", "saborizantes", "aditivos", "almidon",
          "almidón", "preservantes", "quimicos", "químicos", "azúcar",
          "azucar", "gelatina", "procesado", "procesada", "industrial",
          "cancer", "cáncer", "cero quimico", "cero químico", "fructuosa",
          "natural", "libre de"})
Rank3(s) == FindAny(Rank3Literals, s)

\* CATEGORIA 4 (lines 67-74)
Rank4Literals ==
    Lits({"microbiota", "flora intestinal", "probiotic", "probiótic",
          "digestión", "gastritis", "helicobacter", "pylori", "colon",
          "colón", "irritable", "cure", "curé", "me curo", "me curó",
          "bueno para", "ayuda", "salud", "lactosa", "sin lactosa",
          "fermentacion", "fermentación", "bacterias"})
\* intolerante.*lactosa
Rank4Gaps == {<<Chars("intolerante"), Chars("lactosa")>>}
Rank4(s) ==
    \/ FindAny(Rank4Literals, s)
    \/ \E g \in Rank4Gaps : FindGap(g[1], g[2], s)

\* CATEGORIA 5 (lines 78-83)
Rank5Literals ==
    Lits({"sabe feo", "sabe refeo", "no me asento", "no me asentó", "rico",
          "delicioso", "no me gusta", "me encanta", "sabor", "paladar",
          "diarrea", "me dio", "mala experiencia"})
Rank5(s) == FindAny(Rank5Literals, s)

\* CATEGORIA 6 (lines 87-92)
Rank6Literals ==
    Lits({"dejamu", "pomar", "san martin", "san martín", "colanta",
          "mejor el de", "otro", "marca", "alternativa", "d1", "ara",
          "tienda"})
Rank6(s) == FindAny(Rank6Literals, s)

\* CATEGORIA 7 (lines 96-101)
Rank7Literals ==
    Lits({"no ha llegado", "no lo encuentro", "yopal", "dónde", "donde",
          "donde comprar", "consigo", "disponible", "venden", "no hay",
          "difícil conseguir", "cliente"})
Rank7(s) == FindAny(Rank7Literals, s)

\* CATEGORIA 8 (lines 105-109)
Rank8Literals ==
    Lits({"receta", "chia", "chía", "avena", "granola", "combino con",
          "mezclo", "preparar"})
\* c[oó]mo.*prepara
Rank8Gaps ==
    {<<Chars("como"), Chars("prepara")>>, <<Chars("cómo"), Chars("prepara")>>}
Rank8(s) ==
    \/ FindAny(Rank8Literals, s)
    \/ \E g \in Rank8Gaps : FindGap(g[1], g[2], s)

\* CATEGORIA 9 (lines 113-118)
Rank9Literals ==
    Lits({"caitlyn jenner", "kardashian", "pilates", "mewing", "doctora",
          "pupi", "cata", "divina", "publicidad", "marketing", "publicit",
          "sponsor"})
Rank9(s) == FindAny(Rank9Literals, s)

FueraDeTema == "Fuera de Tema / Solo Emojis"

\* line 138
DefaultTopicDocstring == "Preguntas sobre el Producto"
DefaultTopic == "Otros"

\* result of a call that has not returned
NoResult == "<no result>"
\* the cascade fell through rank 9
NoMatch == "<no match>"

\* Lines 37-119 with the rules of ranks 1 and 2 in the opposite order.
CascadeSwapped(s) ==
    IF Rank2(s) THEN "Precio y Valor Percibido"
    ELSE IF Rank1(s) THEN "Comparación con Kéfir Casero/Artesanal"
    ELSE IF Rank3(s) THEN "Ingredientes y Composición"
    ELSE IF Rank4(s) THEN "Beneficios de Salud y Experiencias"
    ELSE IF Rank5(s) THEN "Sabor y Experiencia de Consumo"
    ELSE IF Rank6(s) THEN "Competencia y Marcas Alternativas"
    ELSE IF Rank7(s) THEN "Disponibilidad y Distribución"
    ELSE IF Rank8(s) THEN "Recetas y Usos"
    ELSE IF Rank9(s) THEN "Comentarios sobre la Publicidad"
    ELSE NoMatch

\* Lines 37-119: the if-chain; NoMatch when control reaches line 121.
Cascade(s) ==
    IF Rank1(s) THEN "Comparación con Kéfir Casero/Artesanal"
    ELSE IF Rank2(s) THEN "Precio y Valor Percibido"
    ELSE IF Rank3(s) THEN "Ingredientes y Composición"
    ELSE IF Rank4(s) THEN "Beneficios de Salud y Experiencias"
    ELSE IF Rank5(s) THEN "Sabor y Experiencia de Consumo"
    ELSE IF Rank6(s) THEN "Competencia y Marcas Alternativas"
    ELSE IF Rank7(s) THEN "Disponibilidad y Distribución"
    ELSE IF Rank8(s) THEN "Recetas y Usos"
    ELSE IF Rank9(s) THEN "Comentarios sobre la Publicidad"
    ELSE NoMatch

----------------------------------------------------------------------------
(* The fallback heuristic (lines 121-138) *)

InRange(c, lo, hi) == c \in DOMAIN ord /\ lo <= ord[c] /\ ord[c] <= hi

\* Length of the match of the emoji pattern of line 123 at position i, 0 if
\* there is none.  The class is [U+1F600-U+1F64F U+1F300-U+1F5FF]; the
\* single-character alternatives after it that the model's alphabet holds are
\* U+2728 and U+1F44D.
EmojiMatchLen(s, i) ==
    IF InRange(s[i], 128512, 128591) \/ InRange(s[i], 127744, 128511) THEN 1
    ELSE IF MatchAt(<<HEART, VS16>>, s, i) THEN 2
    ELSE IF MatchAt(<<SUIT, VS16>>, s, i) THEN 2
    ELSE IF s[i] \in {SPARKLES, THUMBS} THEN 1
    ELSE 0

\* len(re.findall(...)): the matches are taken left to right, not overlapping
RECURSIVE FindallCount(_, _)
FindallCount(s, i) ==
    IF i > Len(s) THEN 0
    ELSE LET n == EmojiMatchLen(s, i)
         IN  IF n = 0 THEN FindallCount(s, i + 1)
             ELSE 1 + FindallCount(s, i + n)

emoji_count(s) == FindallCount(s, 1)

\* str.split(): the maximal runs of characters that are not whitespace
RECURSIVE SplitFrom(_, _, _)
SplitFrom(s, i, cur) ==
    IF i > Len(s) THEN (IF cur = <<>> THEN <<>> ELSE <<cur>>)
    ELSE IF s[i] \in Whitespace
         THEN (IF cur = <<>> THEN <<>> ELSE <<cur>>) \o SplitFrom(s, i + 1, <<>>)
         ELSE SplitFrom(s, i + 1, Append(cur, s[i]))

split(s) == SplitFrom(s, 1, <<>>)

\* line 124: the tokens longer than MinTokenLen
MinTokenLen == 2
IsSubstantiveFromTwo(w) == Len(w) >= MinTokenLen
IsSubstantive(w) == Len(w) > MinTokenLen
word_count(s) == Len(SelectSeq(split(s), IsSubstantive))

\* str.strip()
RECURSIVE strip(_)
strip(s) ==
    IF s = <<>> THEN s
    ELSE IF Head(s) \in Whitespace THEN strip(Tail(s))
    ELSE IF s[Len(s)] \in Whitespace THEN strip(SubSeq(s, 1, Len(s) - 1))
    ELSE s

\* line 126
MinWords == 2
ShortOrEmojiNoShort(E, W) == E > W
ShortOrEmoji(E, W) == E > W \/ W < MinWords

\* ^pat : without re.MULTILINE, only at the start of the text
Prefix(pat, s) == MatchAt(pat, s, 1)

\* $ at position i: the end of the text, or just before a final newline
AtEnd(s, i) == i = Len(s) + 1 \/ (i = Len(s) /\ s[i] = "\n")

\* ^pat$
Whole(pat, s) == Prefix(pat, s) /\ AtEnd(s, Len(pat) + 1)

\* ^\s*\[sticker\]\s*$
StickerMarker == Chars("[sticker]")
WholeSticker(s) ==
    \E i \in 1..Len(s) :
        /\ \A k \in 1..(i - 1) : s[k] \in Whitespace
        /\ MatchAt(StickerMarker, s, i)
        /\ \E e \in (i + Len(StickerMarker))..(Len(s) + 1) :
              /\ \A k \in (i + Len(StickerMarker))..(e - 1) : s[k] \in Whitespace
              /\ AtEnd(s, e)

\* the alternatives of lines 130-132 anchored at both ends: ^xd$, ^gracias$,
\* ^bendiciones$, ^am[eé]n$, ^si$, ^no$
WholePatterns == Lits({"xd", "gracias", "bendiciones", "amen", "amén", "si", "no"})
\* the alternatives anchored at the start only: ^jaja, and the three glyphs
PrefixPatterns == Lits({"jaja"}) \cup {<<HEART>>, <<SUIT>>, <<SPARKLES>>}

\* lines 129-134 with ^jaja$ in place of ^jaja
BoilerplateJajaWhole(s) ==
    \/ WholeSticker(s)
    \/ \E p \in WholePatterns \cup Lits({"jaja"}) : Whole(p, s)
    \/ \E p \in PrefixPatterns \ Lits({"jaja"}) : Prefix(p, s)

\* lines 129-134 with ^gracias in place of ^gracias$
BoilerplateGraciasPrefix(s) ==
    \/ WholeSticker(s)
    \/ \E p \in WholePatterns \ Lits({"gracias"}) : Whole(p, s)
    \/ \E p \in PrefixPatterns \cup Lits({"gracias"}) : Prefix(p, s)

\* lines 129-134: re.search of the acknowledgment pattern in the stripped text
Boilerplate(s) ==
    \/ WholeSticker(s)
    \/ \E p \in WholePatterns : Whole(p, s)
    \/ \E p \in PrefixPatterns : Prefix(p, s)

\* Lines 123-138.  re.findall is given comment itself, not str(comment):
\* it raises TypeError for an argument that is not a str.
Fallback(v, cl) ==
    IF v.type # "str" THEN "TypeError"
    ELSE IF ShortOrEmoji(emoji_count(v.value), word_count(cl)) THEN FueraDeTema
    ELSE IF Boilerplate(strip(cl)) THEN FueraDeTema
    ELSE DefaultTopic

\* line 33 without .lower()
NormalizeNoLower(v) == str(v)
\* line 33
Normalize(v) == lower(str(v))

\* classify_topic(comment), run alone (lines 23-138)
classify_topic(v) ==
    LET cl == Normalize(v)
        topic == Cascade(cl)
    IN  IF topic # NoMatch THEN topic ELSE Fallback(v, cl)

----------------------------------------------------------------------------
(* The campaign metadata (lines 145-164) *)

StrValue(x) == [kind |-> "str", v |-> x]
\* a reference to a list object of the heap
ListRef(id) == [kind |-> "list", v |-> id]

Keys == {"campaign_name", "product", "categories", "version", "last_updated"}

\* lines 148-156
CategoriesLiteral ==
    <<"Preguntas sobre el Producto",
      "Comparación con Kéfir Casero/Artesanal",
      "Ingredientes y Salud",
      "Competencia y Disponibilidad",
      "Opinión General del Producto",
      "Fuera de Tema / No Relevante",
      "Otros">>

\* lines 145-159: the dict literal; its 'categories' value is one list object
MetadataLiteral ==
    [k \in Keys |->
        CASE k = "campaign_name" -> StrValue("Alpina - Kéfir")
          [] k = "product" -> StrValue("Kéfir Alpina")
          [] k = "categories" -> ListRef("categories")
          [] k = "version" -> StrValue("1.0")
          [] k = "last_updated" -> StrValue("2025-11-20")]

\* what a reader of dict d sees: the strings, and the elements of the lists
Deep(d, heap) ==
    [k \in DOMAIN d |->
        IF d[k].kind = "list" THEN [kind |-> "list", items |-> heap[d[k].v]]
        ELSE [kind |-> "str", items |-> <<d[k].v>>]]

NotHeld == [obj |-> FALSE, items |-> <<>>]
NoSnapshot == [taken |-> FALSE, value |-> <<>>]

\* dict.copy(): a new dict with the same values, the list object included
DictCopy(d) == d

MetaInit(holders) ==
    /\ CAMPAIGN_METADATA = MetadataLiteral
    /\ lists = [id \in {"categories"} |-> CategoriesLiteral]
    /\ held = [h \in holders |-> NotHeld]
    /\ snapshot = [h \in holders |-> NoSnapshot]
    /\ mutations = 0

\* lines 162-164: holder h calls get_campaign_metadata() and keeps the result
GetCampaignMetadata(h) ==
    /\ held' = [held EXCEPT ![h] = [obj |-> TRUE, items |-> DictCopy(CAMPAIGN_METADATA)]]
    /\ snapshot' = [snapshot EXCEPT
                      ![h] = [taken |-> TRUE,
                              value |-> Deep(DictCopy(CAMPAIGN_METADATA), lists)]]
    /\ UNCHANGED <<CAMPAIGN_METADATA, lists, mutations>>
    /\ UNCHANGED classifyVars

MaxMutations == 3

\* the caller's  m[k] = 'changed'  on the dict it holds
ReplaceKey(h, k) ==
    /\ held[h].obj
    /\ mutations < MaxMutations
    /\ held' = [held EXCEPT
                  ![h].items = [x \in DOMAIN @ \cup {k} |->
                                   IF x = k THEN StrValue("changed") ELSE @[x]]]
    /\ mutations' = mutations + 1
    /\ UNCHANGED <<CAMPAIGN_METADATA, lists, snapshot>>
    /\ UNCHANGED classifyVars

\* the caller's  del m[k]
DeleteKey(h, k) ==
    /\ held[h].obj
    /\ k \in DOMAIN held[h].items
    /\ mutations < MaxMutations
    /\ held' = [held EXCEPT ![h].items = [x \in DOMAIN @ \ {k} |-> @[x]]]
    /\ mutations' = mutations + 1
    /\ UNCHANGED <<CAMPAIGN_METADATA, lists, snapshot>>
    /\ UNCHANGED classifyVars

HoldsList(h) ==
    /\ held[h].obj
    /\ "categories" \in DOMAIN held[h].items
    /\ held[h].items["categories"].kind = "list"

\* the caller's  m['categories'].append('changed')
AppendCategory(h) ==
    /\ HoldsList(h)
    /\ mutations < MaxMutations
    /\ lists' = [lists EXCEPT ![held[h].items["categories"].v] = Append(@, "changed")]
    /\ mutations' = mutations + 1
    /\ UNCHANGED <<CAMPAIGN_METADATA, held, snapshot>>
    /\ UNCHANGED classifyVars

\* the caller's  m['categories'].pop()
PopCategory(h) ==
    /\ HoldsList(h)
    /\ mutations < MaxMutations
    /\ lists[held[h].items["categories"].v] # <<>>
    /\ lists' = [lists EXCEPT
                   ![held[h].items["categories"].v] = SubSeq(@, 1, Len(@) - 1)]
    /\ mutations' = mutations + 1
    /\ UNCHANGED <<CAMPAIGN_METADATA, held, snapshot>>
    /\ UNCHANGED classifyVars

----------------------------------------------------------------------------
(* Calls of classify_topic *)

ClassifyInit(inputs) ==
    /\ comment = inputs
    /\ pc = [c \in DOMAIN inputs |-> "start"]
    /\ comment_lower = [c \in DOMAIN inputs |-> <<>>]
    /\ result = [c \in DOMAIN inputs |-> NoResult]

\* One call of classify_topic, start to return (lines 23-138).
Classify(c) ==
    /\ pc[c] = "start"
    /\ comment_lower' = [comment_lower EXCEPT ![c] = Normalize(comment[c])]
    /\ result' = [result EXCEPT ![c] = classify_topic(comment[c])]
    /\ pc' = [pc EXCEPT ![c] = "done"]
    /\ UNCHANGED comment
    /\ UNCHANGED metaVars

\* The same call in three steps, as a thread runs it between switches.
\* Line 33 with comment_lower kept in one cell all calls share.
CallShared(c) ==
    /\ pc[c] = "start"
    /\ comment_lower' = [d \in DOMAIN comment_lower |-> Normalize(comment[c])]
    /\ pc' = [pc EXCEPT ![c] = "cascade"]
    /\ UNCHANGED <<comment, result>>
    /\ UNCHANGED metaVars

\* Line 33: the local comment_lower of this call is bound.
Call(c) ==
    /\ pc[c] = "start"
    /\ comment_lower' = [comment_lower EXCEPT ![c] = Normalize(comment[c])]
    /\ pc' = [pc EXCEPT ![c] = "cascade"]
    /\ UNCHANGED <<comment, result>>
    /\ UNCHANGED metaVars

\* Lines 37-119: return the topic of the first matching rank, or go on.
CascadeStep(c) ==
    /\ pc[c] = "cascade"
    /\ LET topic == Cascade(comment_lower[c])
       IN  IF topic # NoMatch
           THEN /\ result' = [result EXCEPT ![c] = topic]
                /\ pc' = [pc EXCEPT ![c] = "done"]
           ELSE /\ pc' = [pc EXCEPT ![c] = "fallback"]
                /\ UNCHANGED result
    /\ UNCHANGED <<comment, comment_lower>>
    /\ UNCHANGED metaVars

\* Lines 123-138.
FallbackStep(c) ==
    /\ pc[c] = "fallback"
    /\ result' = [result EXCEPT ![c] = Fallback(comment[c], comment_lower[c])]
    /\ pc' = [pc EXCEPT ![c] = "done"]
    /\ UNCHANGED <<comment, comment_lower>>
    /\ UNCHANGED metaVars

----------------------------------------------------------------------------
(* The inputs of the single-call specification *)

MaxFrags == 2

LatinFragments ==
    Lits({"casero", "caro", "natural", "salud", "sabor", "marca", "Dónde",
          "receta", "pupi", "como", "preparar", "descaro", "hola amigos",
          "jaja", "gracias", "si", "xd", "amén", "[sticker]", "\n"})

GlyphFragments ==
    {<<HEART, VS16>>, <<HEART>>, <<SPARKLES>>,
     <<GRIN, " ", THUMBS, " ", HEART, VS16>>}

Fragments == LatinFragments \cup GlyphFragments

\* the texts made of at most MaxFrags fragments, one space between them
Texts ==
    UNION {{JoinWith(<<" ">>, fs) : fs \in [1..n -> Fragments]} : n \in 0..MaxFrags}

NonTextInputs ==
    {PyNone, PyBool(TRUE), PyInt(0), PyInt(-12),
     PyList(<<Chars("caro")>>), PyList(<<Chars("hola"), Chars("amigos")>>)}

Inputs == {PyStr(t) : t \in Texts} \cup NonTextInputs

Init ==
    /\ \E v \in Inputs : ClassifyInit([c \in {1} |-> v])
    /\ MetaInit({})

Next == \E c \in DOMAIN pc : Classify(c)

Spec == Init /\ [][Next]_vars

----------------------------------------------------------------------------
(* Callers of get_campaign_metadata that change what they were given *)

NumHolders == 2

InitMeta ==
    /\ ClassifyInit(<<>>)
    /\ MetaInit(1..NumHolders)

NextMeta ==
    \E h \in DOMAIN held :
        \/ GetCampaignMetadata(h)
        \/ \E k \in Keys : ReplaceKey(h, k)
        \/ \E k \in Keys : DeleteKey(h, k)
        \/ AppendCategory(h)
        \/ PopCategory(h)

SpecMeta == InitMeta /\ [][NextMeta]_vars

----------------------------------------------------------------------------
(* Concurrent callers of one classifier and of the metadata accessor *)

NumCallers == 2

ConcTexts ==
    {Chars("casero caro"), Chars("Hola amigos"), <<HEART, VS16, " ">> \o Chars("si")}

InitConc ==
    /\ \E vs \in [1..NumCallers -> {PyStr(t) : t \in ConcTexts}] : ClassifyInit(vs)
    /\ MetaInit({1})

NextConc ==
    \/ \E c \in DOMAIN pc :
          \/ Call(c)
          \/ CascadeStep(c)
          \/ FallbackStep(c)
    \/ \E h \in DOMAIN held :
          \/ GetCampaignMetadata(h)
          \/ AppendCategory(h)

SpecConc == InitConc /\ [][NextConc]_vars

----------------------------------------------------------------------------
(* One text and a copy of it whose letters change case *)

UpperMap ==
    [c \in Range(LowerLetters) |->
        <<UpperLetters[CHOOSE i \in DOMAIN LowerLetters : LowerLetters[i] = c]>>]

\* str.upper() of one character: 'ß' gives 'SS', the long s gives 'S'
UpperChar(c) ==
    IF c \in DOMAIN UpperMap THEN UpperMap[c]
    ELSE IF c = "ß" THEN <<"S", "S">>
    ELSE IF c = LONG_S THEN <<"S">>
    ELSE <<c>>

ReplaceAt(s, i, r) == SubSeq(s, 1, i - 1) \o r \o SubSeq(s, i + 1, Len(s))

\* the caller upper-cases character i of the text it is about to pass
ToUpper(c, i) ==
    /\ pc[c] = "start"
    /\ UpperChar(comment[c].value[i]) # <<comment[c].value[i]>>
    /\ comment' = [comment EXCEPT
                     ![c].value = ReplaceAt(@, i, UpperChar(comment[c].value[i]))]
    /\ UNCHANGED <<pc, comment_lower, result>>
    /\ UNCHANGED metaVars

\* the caller lower-cases character i of the text it is about to pass
ToLower(c, i) ==
    /\ pc[c] = "start"
    /\ LowerChar(comment[c].value[i]) # comment[c].value[i]
    /\ comment' = [comment EXCEPT
                     ![c].value = ReplaceAt(@, i, <<LowerChar(comment[c].value[i])>>)]
    /\ UNCHANGED <<pc, comment_lower, result>>
    /\ UNCHANGED metaVars

CaseTexts ==
    {Chars("caro"), Chars("Dónde"), <<LONG_S>> \o Chars("abor"),
     Chars("aß hola"), <<HEART, VS16, " ">> \o Chars("amén"),
     Chars("jaja si no")}

\* call 1 classifies the text as given, call 2 a case variant of it
InitCase ==
    /\ \E t \in CaseTexts : ClassifyInit([c \in {1, 2} |-> PyStr(t)])
    /\ MetaInit({})

NextCase ==
    \/ \E i \in DOMAIN comment[2].value : ToUpper(2, i)
    \/ \E i \in DOMAIN comment[2].value : ToLower(2, i)
    \/ \E c \in DOMAIN pc : Classify(c)

SpecCase == InitCase /\ [][NextCase]_vars

----------------------------------------------------------------------------
(* Vocabulary of the claims *)

\* the eleven labels of the taxonomy
TopicLabels ==
    {"Comparación con Kéfir Casero/Artesanal", "Precio y Valor Percibido",
     "Ingredientes y Composición", "Beneficios de Salud y Experiencias",
     "Sabor y Experiencia de Consumo", "Competencia y Marcas Alternativas",
     "Disponibilidad y Distribución", "Recetas y Usos",
     "Comentarios sobre la Publicidad", "Fuera de Tema / Solo Emojis", "Otros"}

\* the topic of each content rank
RankTopic ==
    <<"Comparación con Kéfir Casero/Artesanal", "Precio y Valor Percibido",
      "Ingredientes y Composición", "Beneficios de Salud y Experiencias",
      "Sabor y Experiencia de Consumo", "Competencia y Marcas Alternativas",
      "Disponibilidad y Distribución", "Recetas y Usos",
      "Comentarios sobre la Publicidad">>

RankMatches(k, s) ==
    CASE k = 1 -> Rank1(s) [] k = 2 -> Rank2(s) [] k = 3 -> Rank3(s)
      [] k = 4 -> Rank4(s) [] k = 5 -> Rank5(s) [] k = 6 -> Rank6(s)
      [] k = 7 -> Rank7(s) [] k = 8 -> Rank8(s) [] k = 9 -> Rank9(s)

MatchingRanks(s) == {k \in DOMAIN RankTopic : RankMatches(k, s)}
Lowest(S) == CHOOSE k \in S : \A j \in S : k <= j

Calls == DOMAIN pc
Returned(c) == pc[c] = "done"
IsText(c) == comment[c].type = "str"
\* the lowercased text of call c's argument
LowerText(c) == lower(str(comment[c]))

\* E: the positions of the original text where an emoji-class match starts
EmojiStarts(s) ==
    {i \in 1..Len(s) :
        \/ InRange(s[i], 128512, 128591)
        \/ InRange(s[i], 127744, 128511)
        \/ s[i] \in {SPARKLES, THUMBS}
        \/ (s[i] \in {HEART, SUIT} /\ i < Len(s) /\ s[i + 1] = VS16)}
E(c) == Cardinality(EmojiStarts(comment[c].value))

\* W: the whitespace-separated tokens of the lowercased text longer than 2
LongTokenStarts(s) ==
    {i \in 1..Len(s) :
        /\ i = 1 \/ s[i - 1] \in Whitespace
        /\ i + 2 <= Len(s)
        /\ \A k \in i..(i + 2) : s[k] \notin Whitespace}
W(c) == Cardinality(LongTokenStarts(LowerText(c)))

NoRankMatches(c) ==
    LET s == LowerText(c) IN \A k \in DOMAIN RankTopic : ~RankMatches(k, s)
\* call c's text gets past sub-check (a) and is decided by sub-check (b)
ReachesB(c) == IsText(c) /\ W(c) >= 2 /\ E(c) <= W(c) /\ NoRankMatches(c)
Trimmed(c) == strip(LowerText(c))

BeginsWith(p, s) == Len(p) <= Len(s) /\ SubSeq(s, 1, Len(p)) = p
BeginsWithLaughterOrGlyph(s) ==
    \/ BeginsWith(Chars("jaja"), s)
    \/ (s # <<>> /\ s[1] \in {HEART, SUIT, SPARKLES})

\* the acknowledgments as whole strings
EndAnchoredAcks == Lits({"[sticker]", "xd", "gracias", "bendiciones", "amén", "amen", "si", "no"})
WholeAcknowledgment(s) ==
    \/ s \in EndAnchoredAcks
    \/ (BeginsWith(Chars("jaja"), s) /\ \A i \in DOMAIN s : s[i] \in {"j", "a"})
    \/ s \in {<<HEART>>, <<SUIT>>, <<SPARKLES>>, <<HEART, VS16>>, <<SUIT, VS16>>}

----------------------------------------------------------------------------
(* Claims about one call *)

C2_NonTextTotality ==
    \A c \in Calls : Returned(c) /\ ~IsText(c) => result[c] \in TopicLabels

\* C4: if a content rule of ranks 1-9 matches the lowercased text, the topic
\* returned is that of the lowest matching rank; the two fallback labels are
\* returned only when no rank matches.
C4_FirstMatchWins ==
    \A c \in Calls :
        Returned(c) =>
            LET M == MatchingRanks(LowerText(c))
            IN  /\ M # {} => result[c] = RankTopic[Lowest(M)]
                /\ result[c] \in {FueraDeTema, "Otros"} => M = {}

C4_Witness ==
    \E c \in Calls :
        /\ Returned(c)
        /\ {1, 2} \subseteq MatchingRanks(LowerText(c))
        /\ result[c] = "Comparación con Kéfir Casero/Artesanal"

\* C5: a text that matches no rank is 'Fuera de Tema / Solo Emojis' if E > W or
\* W < 2, otherwise 'Fuera de Tema / Solo Emojis' if the acknowledgment check
\* matches and 'Otros' if not; 'Otros' is returned exactly when no rank
\* matches, W >= 2, E <= W and the acknowledgment check fails.
C5_FallbackDecision ==
    \A c \in Calls :
        Returned(c) /\ IsText(c) =>
            LET e == E(c)
                w == W(c)
                none == NoRankMatches(c)
                ack == Boilerplate(Trimmed(c))
            IN  /\ none => result[c] = IF e > w \/ w < 2 THEN FueraDeTema
                                       ELSE IF ack THEN FueraDeTema
                                       ELSE "Otros"
                /\ result[c] = "Otros" <=> (none /\ w >= 2 /\ e <= w /\ ~ack)

\* a text of two or more substantive words with more emoji than words
C5_Witness ==
    \E c \in Calls :
        /\ Returned(c) /\ IsText(c) /\ NoRankMatches(c)
        /\ W(c) >= 2 /\ E(c) > W(c)
        /\ result[c] = FueraDeTema

\* C6, as claimed: a comment that reaches sub-check (b) and is not, as a
\* whole, one of the acknowledgments falls through to 'Otros'.
C6_FullStringAnchoring ==
    \A c \in Calls :
        Returned(c) /\ ReachesB(c) /\ ~WholeAcknowledgment(Trimmed(c))
            => result[c] = "Otros"

\* C6, amended: every alternative is anchored at the start; laughter and the
\* heart/sparkle glyphs are not anchored at the end.  A comment that reaches
\* sub-check (b) is 'Fuera de Tema / Solo Emojis' if its trimmed lowercased
\* text begins with 'jaja' or a heart/sparkle glyph, and 'Otros' otherwise.
C6_StartAnchoring ==
    \A c \in Calls :
        Returned(c) /\ ReachesB(c) =>
            /\ BeginsWithLaughterOrGlyph(Trimmed(c)) => result[c] = FueraDeTema
            /\ ~BeginsWithLaughterOrGlyph(Trimmed(c)) => result[c] = "Otros"

\* a longer comment that begins with 'gracias' reaches (b) and is 'Otros'
C6_Witness ==
    \E c \in Calls :
        /\ Returned(c) /\ ReachesB(c)
        /\ BeginsWith(Chars("gracias"), Trimmed(c))
        /\ result[c] = "Otros"

\* C7: an empty or whitespace-only string matches no rank, has no substantive
\* word, and is 'Fuera de Tema / Solo Emojis' by the W < 2 branch.
C7_WhitespaceOnly ==
    \A c \in Calls :
        Returned(c) /\ IsText(c)
            /\ (\A i \in DOMAIN comment[c].value : comment[c].value[i] \in Whitespace)
            => /\ NoRankMatches(c)
               /\ W(c) = 0
               /\ split(comment_lower[c]) = <<>>
               /\ result[c] = FueraDeTema

C7_Witness ==
    \E c \in Calls :
        /\ Returned(c) /\ IsText(c)
        /\ Len(comment[c].value) >= 2
        /\ \A i \in DOMAIN comment[c].value : comment[c].value[i] \in Whitespace
        /\ result[c] = FueraDeTema

\* C10: a text whose trimmed lowercased form is one of the end-anchored
\* alternatives has at most one substantive word and is returned by
\* sub-check (a); a text decided by sub-check (b) begins with 'jaja' or with a
\* heart/sparkle glyph.
C10_WholeAlternativesNeverDecide ==
    /\ \A p \in WholePatterns \cup {StickerMarker} :
          Cardinality(LongTokenStarts(p)) <= 1
    /\ \A c \in Calls :
        Returned(c) /\ IsText(c) =>
            /\ Trimmed(c) \in EndAnchoredAcks =>
                  /\ W(c) <= 1
                  /\ NoRankMatches(c)
                  /\ result[c] = FueraDeTema
            /\ result[c] = FueraDeTema /\ ReachesB(c) =>
                  BeginsWithLaughterOrGlyph(Trimmed(c))

\* a text decided by sub-check (b)
C10_Witness ==
    \E c \in Calls :
        /\ Returned(c) /\ ReachesB(c)
        /\ result[c] = FueraDeTema
        /\ BeginsWith(Chars("jaja"), Trimmed(c))
        /\ Len(Trimmed(c)) > 4

----------------------------------------------------------------------------
(* Claims about the metadata, concurrency and letter case *)

OriginalMetadata ==
    Deep(MetadataLiteral, [id \in {"categories"} |-> CategoriesLiteral])

\* C3: whatever callers did to the objects earlier calls returned, every
\* get_campaign_metadata call returns the original name, product, seven
\* categories, version and last-updated values.
C3_CopyIsolation ==
    \A h \in DOMAIN snapshot :
        snapshot[h].taken => snapshot[h].value = OriginalMetadata

\* C8: under any interleaving of the steps of concurrent classify_topic calls
\* with get_campaign_metadata calls and mutations of what those returned,
\* every call returns the topic its argument gets when run alone, and no step
\* of a call changes the metadata or another call's locals and result.
C8_Stateless ==
    /\ [](\A c \in Calls : Returned(c) => result[c] = classify_topic(comment[c]))
    /\ [][\A c \in Calls :
             pc'[c] # pc[c] =>
                /\ CAMPAIGN_METADATA' = CAMPAIGN_METADATA
                /\ lists' = lists
                /\ held' = held
                /\ \A d \in Calls \ {c} :
                      /\ comment_lower'[d] = comment_lower[d]
                      /\ result'[d] = result[d]
                      /\ comment'[d] = comment[d]]_vars

\* two calls on the same text have returned the same topic while the shared
\* categories list was changed by a caller
C8_Witness ==
    /\ \A c \in Calls : Returned(c)
    /\ \E c, d \in Calls : c # d /\ comment[c] = comment[d] /\ result[c] = result[d]
    /\ lists["categories"] # CategoriesLiteral

\* C9, as claimed: changing the case of letters of a text never changes the
\* topic (call 2's text is call 1's with the case of some letters changed).
C9_CaseInsensitive ==
    (\A c \in Calls : Returned(c)) => result[1] = result[2]

\* C9, amended: two texts with the same lowercased form get the same topic.
C9_SameLowercaseSameTopic ==
    (\A c \in Calls : Returned(c)) /\ LowerText(1) = LowerText(2)
        => result[1] = result[2]

\* 'caro' and a differently cased variant of it are both the price topic
C9_Witness ==
    /\ \A c \in Calls : Returned(c)
    /\ comment[1] # comment[2]
    /\ LowerText(1) = LowerText(2)
    /\ result[1] = "Precio y Valor Percibido"
    /\ result[2] = "Precio y Valor Percibido"

====
